---- MODULE Spec2Model ----
(***************************************************************************)
(* AgentBounty browser client: task-list polling (loadTasks), result       *)
(* resolution (handleCompletedTask), approval polling                      *)
(* (pollForCIBAApproval) and the payment procedure (promptForPayment),     *)
(* run against the REST backend.  The browser is single threaded: every    *)
(* action below is one event-loop turn, i.e. the code of a handler from    *)
(* one await to the next.                                                  *)
(***************************************************************************)
EXTENDS Integers, Sequences, FiniteSets, Bags, TLC

\* ---------------------------------------------------------------- bounds
NumTasks == 2          \* tasks of the session
MaxLoads == 2          \* loadTasks calls in flight at once
MaxHCT == 2            \* handleCompletedTask calls (from the list) in flight
MaxLoops == 2
MaxRenders == 2          \* pollForCIBAApproval invocations alive at once
AttemptCap == 2        \* attempts of one approval loop explored in Spec
MaxReloads == 3        \* reloads of the page followed in SpecDemo

\* ------------------------------------------------------ program constants
maxAttempts == 60      \* pollForCIBAApproval(.., maxAttempts = 60)

Tasks == 1..NumTasks
LoopIds == 1..MaxLoops

\* "none": the task has not been created, no list contains it
TaskStatus == {"none", "pending", "running", "completed", "failed"}

\* what the result endpoint knows about a task:
\*   na       task not completed yet
\*   free     completed, no payment needed
\*   due      completed, payment required, no approval needed
\*   pending / approved / denied / expired   state of the approval request
\*   paid     payment authorized
PayStates == {"na", "free", "due", "pending", "approved", "denied", "expired", "paid"}

VARIABLES
    srvStatus,          \* server: task -> status
    srvPay,             \* server: task -> payment / approval state
    loads,              \* bag of the loadTasks calls at `await listTasks()`
    pollingInterval,    \* app.js:17   TRUE when the handle is not null
    timers,             \* number of live 3-second interval timers
    hasRunningTask,     \* window.hasRunningTask
    lastLoadedTasks,    \* window.lastLoadedTasks
    currentTaskFilter,  \* auth.js:936
    panel,              \* content of the element task-result-<id>
    hct,                \* bag of the handleCompletedTask calls at their await
    loops,              \* pollForCIBAApproval invocations
    seenTerminal,       \* task -> the client has observed denied / expired
    pollingError,       \* console.error('CIBA polling error:') has been written
    demoMode,           \* what window.isDemoMode() returns in this session
    ethereum,           \* window.ethereum is present
    demoPage,           \* demo.js: URL, cookie, reload flag, page initialisation
    modal,              \* payment modal: shown?, task its approve handler serves
    approveButton,      \* #approve-payment-button: disabled, textContent
    pay,                \* the approve click handler at its await
    alert,              \* the alert shown last
    account,            \* the account selected in the wallet
    userAddress,        \* window.userAddress
    signer,             \* window.signer is set
    conn,               \* setupWalletConnection at its await
    posted,             \* the authorization POST sent last
    session,            \* "none" no session, "in" logged in, "out" logout clicked
    lastIsAuthenticated,\* window.lastIsAuthenticated
    renders,            \* bag of renderTaskCreator calls at their await
    creator,            \* what the task creator container shows
    createModal,        \* the create-task modal is open
    submit,             \* submitModalTask at its await
    createAlert,        \* the alert submitModalTask raised last
    taskInterval        \* the legacy 5-second timer is set

vars == <<srvStatus, srvPay, loads, pollingInterval, timers,
          hasRunningTask, lastLoadedTasks, currentTaskFilter, panel, hct,
          loops, seenTerminal, pollingError, demoMode, ethereum, demoPage, modal,
          approveButton,
          pay, alert, account, userAddress, signer, conn, posted,
          session, lastIsAuthenticated, renders, creator, createModal, submit,
          createAlert, taskInterval>>

srvVars == <<srvStatus, srvPay>>
pollVars == <<loads, pollingInterval, timers, hasRunningTask,
              lastLoadedTasks>>
resVars == <<panel, hct, loops, seenTerminal, pollingError>>
walletVars == <<account, userAddress, signer, conn, posted>>
payVars == <<demoMode, ethereum, demoPage, modal, approveButton, pay, alert, walletVars>>
creatorRest == <<session, lastIsAuthenticated, creator, createModal, submit,
                 createAlert, taskInterval>>
creatorVars == <<renders, creatorRest>>
uiVars == <<currentTaskFilter, payVars, creatorVars>>

\* ------------------------------------------------------------ task lists
NoList == [t \in Tasks |-> "none"]
UndefinedList == [defined |-> FALSE, tasks |-> NoList]

\* auth.js:944  filterTasks
filterTasks(tasks, filter) ==
    CASE filter = "active" ->
            {t \in Tasks : tasks[t] = "pending" \/ tasks[t] = "running"}
      [] filter = "completed" ->
            {t \in Tasks : tasks[t] = "completed" \/ tasks[t] = "failed"}
      [] OTHER -> {t \in Tasks : tasks[t] # "none"}

\* the tasks of a list value handed to renderTaskListWithTabs; an undefined
\* list is rendered as the empty list (auth.js:939)
Shown(list, filter) ==
    IF list.defined THEN filterTasks(list.tasks, filter) ELSE {}

\* auth.js:938  renderTaskListWithTabs: the whole container is replaced, so
\* every displayed task gets a fresh empty task-result element and the
\* elements of tasks not displayed are gone
renderTaskListWithTabs(list, filter) ==
    [t \in Tasks |-> IF t \in Shown(list, filter) THEN "empty" ELSE "absent"]

\* app.js:27
HasRunningTasks(tasks) == \E t \in DOMAIN tasks : tasks[t] = "running"

\* --------------------------------------------------------- in-flight slots
\* a loadTasks call whose request is on its way; one whose answer has
\* arrived: "ok" with the list, "throw", "body"
SentLoad == [st |-> "sent", snap |-> NoList]
Answered(o, tasks) == [st |-> o, snap |-> IF o = "ok" THEN tasks ELSE NoList]

\* a handleCompletedTask call at `await getTaskResult`
Call(t, attached) == [task |-> t, attached |-> attached]

\* one element put into / taken out of a bag of calls
Put(B, x) == B (+) SetToBag({x})
Take(B, x) == B (-) SetToBag({x})

IdleLoop == [pc |-> "idle", task |-> 1, attempt |-> 0, attached |-> FALSE]

FreeIds(f, idle) == {i \in DOMAIN f : f[i] = idle}
FirstFree(f, idle) == CHOOSE i \in FreeIds(f, idle) : \A j \in FreeIds(f, idle) : i <= j

\* a re-render of the list detaches the elements that calls in flight hold
Detach(h) == [i \in DOMAIN h |-> [h[i] EXCEPT !.attached = FALSE]]

\* the same for the bag of handleCompletedTask calls
DetachCalls(B) ==
    LET ts == {c.task : c \in BagToSet(B)}
    IN [c \in {Call(t, FALSE) : t \in ts} |->
           CopiesIn(Call(c.task, TRUE), B) + CopiesIn(Call(c.task, FALSE), B)]

\* the client right after the scripts have run (app.js:17, auth.js:62, 936)
ClientInit ==
    /\ loads = EmptyBag
    /\ pollingInterval = FALSE
    /\ timers = 0
    /\ hasRunningTask = FALSE
    /\ lastLoadedTasks = UndefinedList
    /\ currentTaskFilter = "all"
    /\ panel = [t \in Tasks |-> "absent"]
    /\ hct = EmptyBag
    /\ loops = [i \in LoopIds |-> IdleLoop]
    /\ seenTerminal = [t \in Tasks |-> FALSE]
    /\ pollingError = FALSE

\* auth.js:470-478, app.js:475-478: the modal hidden, the approve button as
\* the handler leaves it, no task bound yet
IdlePay == [pc |-> "idle", task |-> 1]
IdleSubmit == [pc |-> "idle", task |-> 0]
PayInit ==
    /\ modal = [open |-> FALSE, task |-> 0]
    /\ approveButton = [disabled |-> FALSE, text |-> "Approve Payment"]
    /\ pay = IdlePay
    /\ alert = "none"

\* the wallet's accounts; window.userAddress is one of them, the demo
\* address (demo.js:107) or unset
Accounts == {"a1", "a2"}
DemoAddress == "demo"
NoPost == [kind |-> "none", task |-> 0, from |-> "none", signedBy |-> "none"]
IdleConn == [pc |-> "idle", addr |-> "none"]

\* no connection attempt running, nothing posted, window.userAddress and
\* window.signer as given
WalletState(addr, sg) ==
    /\ account \in Accounts
    /\ userAddress = addr
    /\ signer = sg
    /\ conn = IdleConn
    /\ posted = NoPost

\* auth.js:155-183  setupWalletConnection has run to its end for account a1
WalletConnected ==
    /\ WalletState("a1", TRUE)
    /\ account = "a1"

\* the task creator has not been rendered: updateUIForRunningTask skips
\* the re-render while window.lastIsAuthenticated is undefined
\* (auth.js:69-74); no task is being created, the legacy timer is not set
NoCreator ==
    /\ session = "in"
    /\ lastIsAuthenticated = "undefined"
    /\ renders = EmptyBag
    /\ creator = [cards |-> "none", banner |-> FALSE]
    /\ createModal = FALSE
    /\ submit = IdleSubmit
    /\ createAlert = <<>>
    /\ taskInterval = FALSE

\* a page whose demo script has run and activated nothing: no demo
\* parameter, no demo cookie, no reload requested. script names the copy
\* of the demo script: "reloadFlag" (demo.js:1-185) remembers a forced
\* reload in sessionStorage, "alwaysReload" (demo.js:186-376) does not
LoadedPage ==
    [script |-> "reloadFlag", stores |-> TRUE, param |-> FALSE,
     cookie |-> FALSE, flag |-> FALSE, pc |-> "plain", reloads |-> 0]

\* a session outside demo mode with a wallet provider installed and
\* connected
WalletSession ==
    /\ demoMode = FALSE
    /\ ethereum = TRUE
    /\ demoPage = LoadedPage
    /\ WalletConnected
    /\ NoCreator

\* ------------------------------------------------ the backend (from spec.md)
\* spec.md 3: Task lifecycle pending -> running -> completed | failed
SrvStart(t) ==
    /\ srvStatus[t] = "pending"
    /\ srvStatus' = [srvStatus EXCEPT ![t] = "running"]
    /\ UNCHANGED <<srvPay, pollVars, uiVars, resVars>>

\* spec.md 3: a task fails, or completes and is then free, needs payment,
\* or (cost above the threshold) gets an approval request, initially pending
SrvFinish(t, pays) ==
    /\ srvStatus[t] = "running"
    /\ \/ /\ srvStatus' = [srvStatus EXCEPT ![t] = "failed"]
          /\ UNCHANGED srvPay
       \/ /\ srvStatus' = [srvStatus EXCEPT ![t] = "completed"]
          /\ \E p \in pays : srvPay' = [srvPay EXCEPT ![t] = p]
    /\ UNCHANGED <<pollVars, uiVars, resVars>>

\* spec.md 3 / 4.3: pending -> approved | denied | expired, out of band;
\* the three are terminal
SrvApproval(t) ==
    /\ srvPay[t] = "pending"
    /\ \E s \in {"approved", "denied", "expired"} :
          srvPay' = [srvPay EXCEPT ![t] = s]
    /\ UNCHANGED <<srvStatus, pollVars, uiVars, resVars>>

\* GET /api/tasks/ answered: "ok" the list as it is now, "throw" a transport
\* or HTTP error (fetchFromAPI throws), "body" a 402/403 whose body
\* fetchFromAPI returns as a value (auth.js:1363), without a tasks field
ListTasksServe(outcomes) ==
    /\ BagIn(SentLoad, loads)
    /\ \E o \in outcomes :
          loads' = Put(Take(loads, SentLoad), Answered(o, srvStatus))
    /\ UNCHANGED <<srvVars, pollingInterval, timers, hasRunningTask,
                   lastLoadedTasks, uiVars, resVars>>

\* ------------------------------------------------------- task polling loop
\* app.js:19-23  loadTasks up to `await listTasks()`
loadTasksCall ==
    /\ BagCardinality(loads) < MaxLoads
    /\ loads' = Put(loads, SentLoad)
    /\ UNCHANGED <<srvVars, pollingInterval, timers, hasRunningTask,
                   lastLoadedTasks, uiVars, resVars>>

\* app.js:55-57  the 3-second interval fires
PollingTick ==
    /\ timers > 0
    /\ loadTasksCall

\* app.js:14, auth.js:187, auth.js:685, auth.js:907, demo.js:117  the other
\* callers of loadTasks
CallLoadTasks == loadTasksCall

\* PollingAfter with the stop branch lost
PollingAfter_NeverStops(hasRunningTasks, interval) ==
    IF hasRunningTasks /\ ~interval THEN TRUE ELSE interval

\* app.js:40-45 with startTaskPolling (51-58) and stopTaskPolling (60-66):
\* the handle after the start/stop decision
PollingAfter(hasRunningTasks, interval) ==
    IF hasRunningTasks /\ ~interval THEN TRUE
    ELSE IF ~hasRunningTasks /\ interval THEN FALSE
    ELSE interval

\* live interval timers after the same decision
TimersAfter(hasRunningTasks, interval, n) ==
    IF hasRunningTasks /\ ~interval THEN n + 1
    ELSE IF ~hasRunningTasks /\ interval THEN n - 1
    ELSE n

\* auth.js:482-497  a renderTaskCreator call at its await: its argument and
\* the window.hasRunningTask it read for the running-task banner
RenderCall(isAuthenticated, running) ==
    [auth |-> isAuthenticated, running |-> running]

\* auth.js:482-503  renderTaskCreator up to its await: the argument is
\* remembered, the agent catalog is requested
renderTaskCreatorCall(isAuthenticated, running) ==
    /\ BagCardinality(renders) < MaxRenders
    /\ renders' = Put(renders, RenderCall(isAuthenticated, running))

\* updateUIForRunningTask never clearing the flag
updateUIForRunningTask_SticksTrue(hasRunning) ==
    /\ hasRunningTask' = (hasRunningTask \/ hasRunning)
    /\ IF lastIsAuthenticated # "undefined"
       THEN renderTaskCreatorCall(lastIsAuthenticated = "yes", hasRunning)
       ELSE UNCHANGED renders

\* auth.js:64-75  updateUIForRunningTask: the flag is stored and the task
\* creator re-rendered with the remembered argument, if there is one
updateUIForRunningTask(hasRunning) ==
    /\ hasRunningTask' = hasRunning
    /\ IF lastIsAuthenticated # "undefined"
       THEN renderTaskCreatorCall(lastIsAuthenticated = "yes", hasRunning)
       ELSE UNCHANGED renders

\* app.js:34-38 / 68-77  handleCompletedTask up to `await getTaskResult`,
\* for every task of S in turn
StartHCT(h, S) == h (+) SetToBag({Call(t, TRUE) : t \in S})

\* loadTasksOk under mutual exclusion: an answer is dropped once a list has
\* been rendered
loadTasksOk_FirstWins(x) ==
    LET tasks == x.snap
        list == [defined |-> TRUE, tasks |-> tasks]
        hasRunningTasks == HasRunningTasks(tasks)
        newPanel == renderTaskListWithTabs(list, currentTaskFilter)
        S == {t \in Tasks : tasks[t] = "completed" /\ newPanel[t] # "absent"}
    IN /\ BagIn(x, loads)
       /\ x.st = "ok"
       /\ loads' = Take(loads, x)
       /\ IF lastLoadedTasks.defined
          THEN UNCHANGED <<srvVars, pollingInterval, timers, hasRunningTask,
                           lastLoadedTasks, uiVars, resVars>>
          ELSE /\ BagCardinality(hct) + Cardinality(S) <= MaxHCT
               /\ lastLoadedTasks' = list
               /\ panel' = newPanel
               /\ updateUIForRunningTask(hasRunningTasks)
               /\ hct' = StartHCT(DetachCalls(hct), S)
               /\ loops' = Detach(loops)
               /\ pollingInterval' = PollingAfter(hasRunningTasks, pollingInterval)
               /\ timers' = TimersAfter(hasRunningTasks, pollingInterval, timers)
               /\ UNCHANGED <<srvVars, currentTaskFilter, payVars,
                              creatorRest, seenTerminal, pollingError>>

\* app.js:24-45  loadTasks after the await, the fetch having succeeded
loadTasksOk(x) ==
    LET tasks == x.snap
        list == [defined |-> TRUE, tasks |-> tasks]
        hasRunningTasks == HasRunningTasks(tasks)
        newPanel == renderTaskListWithTabs(list, currentTaskFilter)
        \* handleCompletedTask returns at once without its container
        S == {t \in Tasks : tasks[t] = "completed" /\ newPanel[t] # "absent"}
    IN /\ BagIn(x, loads)
       /\ x.st = "ok"
       /\ BagCardinality(hct) + Cardinality(S) <= MaxHCT
       /\ loads' = Take(loads, x)
       /\ lastLoadedTasks' = list
       /\ panel' = newPanel
       /\ updateUIForRunningTask(hasRunningTasks)
       /\ hct' = StartHCT(DetachCalls(hct), S)
       /\ loops' = Detach(loops)
       /\ pollingInterval' = PollingAfter(hasRunningTasks, pollingInterval)
       /\ timers' = TimersAfter(hasRunningTasks, pollingInterval, timers)
       /\ UNCHANGED <<srvVars, currentTaskFilter, payVars, creatorRest,
                      seenTerminal, pollingError>>

\* loadTasksThrow giving up polling on a failed fetch
loadTasksThrow_StopsPolling(x) ==
    /\ BagIn(x, loads)
    /\ x.st = "throw"
    /\ loads' = Take(loads, x)
    /\ pollingInterval' = FALSE
    /\ timers' = 0
    /\ UNCHANGED <<srvVars, hasRunningTask, lastLoadedTasks,
                   uiVars, resVars>>

\* app.js:23, 46-48  listTasks rejected: logged, nothing else
loadTasksThrow(x) ==
    /\ BagIn(x, loads)
    /\ x.st = "throw"
    /\ loads' = Take(loads, x)
    /\ UNCHANGED <<srvVars, pollingInterval, timers, hasRunningTask,
                   lastLoadedTasks, uiVars, resVars>>

\* app.js:24, 27, 46-48  listTasks returned a 402/403 body: renderTaskList
\* is handed undefined, then tasks.tasks.some throws and is caught
loadTasksBody(x) ==
    /\ BagIn(x, loads)
    /\ x.st = "body"
    /\ loads' = Take(loads, x)
    /\ lastLoadedTasks' = UndefinedList
    /\ panel' = renderTaskListWithTabs(UndefinedList, currentTaskFilter)
    /\ hct' = DetachCalls(hct)
    /\ loops' = Detach(loops)
    /\ UNCHANGED <<srvVars, pollingInterval, timers, hasRunningTask,
                   uiVars, seenTerminal, pollingError>>

\* ------------------------------------------------------ result resolution
\* bodies of GET /api/tasks/{id}/result as the client reads them:
\* status_code, requires_ciba, ciba_status, status === 'failed', content
\* present, payment descriptor with an amount_usdc
Responses ==
    [code : {200, 402, 403}, requires_ciba : BOOLEAN,
     ciba_status : {"none", "pending", "approved", "denied", "expired"},
     failed : BOOLEAN, content : BOOLEAN, amount : BOOLEAN]

Resp(c, rc, cs, f, ct) ==
    [code |-> c, requires_ciba |-> rc, ciba_status |-> cs, failed |-> f,
     content |-> ct, amount |-> (c = 402)]

\* spec.md 4.2 / 6: what the backend answers for a completed task
ServerResponses(t) ==
    CASE srvPay[t] \in {"free", "paid"} -> {Resp(200, FALSE, "none", FALSE, TRUE)}
      [] srvPay[t] = "due" ->
            {Resp(402, FALSE, "none", FALSE, FALSE),
             [Resp(402, FALSE, "none", FALSE, FALSE) EXCEPT !.amount = FALSE]}
      [] srvPay[t] = "pending" -> {Resp(402, TRUE, "pending", FALSE, FALSE)}
      [] srvPay[t] = "approved" ->
            {Resp(402, TRUE, "approved", FALSE, FALSE),
             Resp(402, FALSE, "approved", FALSE, FALSE)}
      [] srvPay[t] = "denied" -> {Resp(403, TRUE, "denied", FALSE, FALSE)}
      [] srvPay[t] = "expired" -> {Resp(403, TRUE, "expired", FALSE, FALSE)}
      [] OTHER -> {Resp(200, FALSE, "none", FALSE, FALSE)}

\* spec.md 6: GET /api/payments/ciba/status/{id}
ServerApprovalStatus(t) ==
    CASE srvPay[t] \in {"pending", "approved", "denied", "expired"} -> srvPay[t]
      [] srvPay[t] = "paid" -> "approved"
      [] OTHER -> "pending"

\* app.js:174-186  the pay-to-unlock button; its listener keeps the response,
\* whose payment descriptor may lack amount_usdc
PayButton(r) == IF r.amount THEN "payButton" ELSE "payButtonNoAmount"
PayButtons == {"payButton", "payButtonNoAmount"}

\* handleCompletedTaskBranch testing requires_ciba before the 403 status
handleCompletedTaskBranch_CibaFirst(r) ==
    IF r.requires_ciba /\ r.code # 200 THEN
        IF r.ciba_status = "pending"
        THEN [panel |-> "waiting", poll |-> TRUE]
        ELSE [panel |-> "checkEmail", poll |-> TRUE]
    ELSE IF r.code = 403 THEN [panel |-> "approvalDenied", poll |-> FALSE]
    ELSE IF r.code = 402 THEN [panel |-> PayButton(r), poll |-> FALSE]
    ELSE IF r.failed THEN [panel |-> "taskFailed", poll |-> FALSE]
    ELSE IF r.content THEN [panel |-> "content", poll |-> FALSE]
    ELSE [panel |-> "notReady", poll |-> FALSE]

\* app.js:80-204  the branch handleCompletedTask takes on a response: the
\* panel it renders and whether it calls pollForCIBAApproval
handleCompletedTaskBranch(r) ==
    IF r.code = 403 THEN
        [panel |-> "approvalDenied", poll |-> FALSE]
    ELSE IF r.code = 402 THEN
        IF r.requires_ciba THEN
            IF r.ciba_status = "pending"
            THEN [panel |-> "waiting", poll |-> TRUE]
            ELSE [panel |-> "checkEmail", poll |-> TRUE]
        ELSE [panel |-> PayButton(r), poll |-> FALSE]
    ELSE IF r.failed THEN [panel |-> "taskFailed", poll |-> FALSE]
    ELSE IF r.content THEN [panel |-> "content", poll |-> FALSE]
    ELSE [panel |-> "notReady", poll |-> FALSE]

\* app.js:232-237  pollForCIBAApproval up to the first `await checkCIBAStatus`
StartLoop(ls, t) ==
    [ls EXCEPT ![FirstFree(ls, IdleLoop)] =
        [pc |-> "check", task |-> t, attempt |-> 0, attached |-> FALSE]]

\* the loop in slot `caller` returns (0: the caller is not a loop)
EndLoop(ls, caller) ==
    IF caller = 0 THEN ls ELSE [ls EXCEPT ![caller] = IdleLoop]

\* app.js:78-204  handleCompletedTask after `await getTaskResult` resolved
\* with r; `attached` says whether the element it looked up before the await
\* is still the one in the document; app.js:243 the awaiting loop returns
handleCompletedTaskOk(t, attached, r, caller) ==
    LET b == handleCompletedTaskBranch(r)
    IN /\ b.poll => FreeIds(loops, IdleLoop) # {}
       /\ panel' = IF attached THEN [panel EXCEPT ![t] = b.panel] ELSE panel
       /\ loops' = EndLoop(IF b.poll THEN StartLoop(loops, t) ELSE loops, caller)
       /\ seenTerminal' = IF r.code = 403
                          THEN [seenTerminal EXCEPT ![t] = TRUE]
                          ELSE seenTerminal
       /\ UNCHANGED pollingError

\* app.js:205-221  getTaskResult rejected
handleCompletedTaskThrow(t, attached, caller) ==
    /\ panel' = IF attached THEN [panel EXCEPT ![t] = "loadFailed"] ELSE panel
    /\ loops' = EndLoop(loops, caller)
    /\ UNCHANGED <<seenTerminal, pollingError>>

\* a handleCompletedTask call started by loadTasks resumes with response r
HCTResume(c, r) ==
    /\ BagIn(c, hct)
    /\ hct' = Take(hct, c)
    /\ handleCompletedTaskOk(c.task, c.attached, r, 0)
    /\ UNCHANGED <<srvVars, pollVars, uiVars>>

\* the same call resumes with getTaskResult rejected
HCTFail(c) ==
    /\ BagIn(c, hct)
    /\ hct' = Take(hct, c)
    /\ handleCompletedTaskThrow(c.task, c.attached, 0)
    /\ UNCHANGED <<srvVars, pollVars, uiVars>>

\* ------------------------------------------------------- approval polling
\* AfterPollingError with the break lost: the for loop goes on
AfterPollingError_Retries(l) ==
    IF loops[l].attempt + 1 < maxAttempts
    THEN [loops EXCEPT ![l].attempt = loops[l].attempt + 1]
    ELSE [loops EXCEPT ![l] = IdleLoop]

\* app.js:259-265  catch: the error is logged, `break` leaves the for loop
\* and the function returns
AfterPollingError(l) == [loops EXCEPT ![l] = IdleLoop]

\* app.js:237-262  one status answer handled by the loop in slot l
PollStatus(l, status) ==
    LET t == loops[l].task
    IN /\ loops[l].pc = "check"
       /\ CASE status = "approved" ->
                 \* app.js:242, 69-73: handleCompletedTask starts; without
                 \* its container it returns at once and so does the loop
                 /\ loops' = IF panel[t] = "absent"
                             THEN [loops EXCEPT ![l] = IdleLoop]
                             ELSE [loops EXCEPT ![l].pc = "resolve",
                                                ![l].attached = TRUE]
                 /\ UNCHANGED <<panel, seenTerminal, pollingError>>
            [] status \in {"denied", "expired"} ->
                 /\ panel' = IF panel[t] = "absent" THEN panel
                             ELSE [panel EXCEPT ![t] = "approvalEnded"]
                 /\ seenTerminal' = [seenTerminal EXCEPT ![t] = TRUE]
                 /\ loops' = [loops EXCEPT ![l] = IdleLoop]
                 /\ UNCHANGED pollingError
            [] status = "throw" ->
                 /\ loops' = AfterPollingError(l)
                 /\ pollingError' = TRUE
                 /\ UNCHANGED <<panel, seenTerminal>>
            [] OTHER ->
                 /\ loops' = [loops EXCEPT ![l].pc = "sleep"]
                 /\ UNCHANGED <<panel, seenTerminal, pollingError>>
       /\ UNCHANGED <<srvVars, pollVars, uiVars, hct>>

\* the answers checkCIBAStatus can get for the loop in slot l
StatusAnswers(l) == {ServerApprovalStatus(loops[l].task), "throw"}

\* MoreAttempts off by one
MoreAttempts_OffByOne(attempt) == attempt + 1 <= maxAttempts

\* app.js:235  attempts are left after the wait that follows `attempt`
MoreAttempts(attempt) == attempt + 1 < maxAttempts

\* app.js:258, 235  the 5-second wait is over: next attempt or exhaustion;
\* cap bounds the attempts explored
PollWake(l, cap) ==
    /\ loops[l].pc = "sleep"
    /\ loops[l].attempt + 1 < cap \/ ~MoreAttempts(loops[l].attempt)
    /\ loops' = IF MoreAttempts(loops[l].attempt)
                THEN [loops EXCEPT ![l].pc = "check",
                                   ![l].attempt = loops[l].attempt + 1]
                ELSE [loops EXCEPT ![l] = IdleLoop]
    /\ UNCHANGED <<srvVars, pollVars, uiVars, panel, hct,
                   seenTerminal, pollingError>>

\* app.js:242-243  the handleCompletedTask call awaited by loop l resumes
\* with r, then the loop returns
PollResolve(l, r) ==
    /\ loops[l].pc = "resolve"
    /\ handleCompletedTaskOk(loops[l].task, loops[l].attached, r, l)
    /\ UNCHANGED <<srvVars, pollVars, uiVars, hct>>

PollResolveFail(l) ==
    /\ loops[l].pc = "resolve"
    /\ handleCompletedTaskThrow(loops[l].task, loops[l].attached, l)
    /\ UNCHANGED <<srvVars, pollVars, uiVars, hct>>

\* ------------------------------------------------------------ task filter
\* auth.js:1118-1124  switchTaskFilter: the list is rendered again from
\* window.lastLoadedTasks; no result is resolved
switchTaskFilter(filter) ==
    /\ currentTaskFilter' = filter
    /\ IF lastLoadedTasks.defined
       THEN /\ panel' = renderTaskListWithTabs(lastLoadedTasks, filter)
            /\ hct' = DetachCalls(hct)
            /\ loops' = Detach(loops)
       ELSE UNCHANGED <<panel, hct, loops>>
    /\ UNCHANGED <<srvVars, pollVars, seenTerminal, pollingError, payVars,
                   creatorVars>>

\* ------------------------------------------------------- payment procedure
\* app.js:182-185, 271-293  the pay-to-unlock button of task t is clicked:
\* promptForPayment with the response the button's listener keeps
\* promptForPayment without the amount check
AmountMissing_Unchecked(p) == FALSE

\* app.js:279  !payment.amount_usdc
AmountMissing(p) == p = "payButtonNoAmount"

promptForPayment(t) ==
    /\ panel[t] \in PayButtons
    /\ IF AmountMissing(panel[t])
       THEN /\ alert' = "invalid"
            /\ UNCHANGED modal
       ELSE /\ modal' = [open |-> TRUE, task |-> t]
            /\ UNCHANGED alert
    /\ UNCHANGED <<srvVars, pollVars, currentTaskFilter, resVars, demoMode,
                   ethereum, demoPage, approveButton, pay, walletVars, creatorVars>>

\* app.js:481-483, auth.js:460-464  cancel button or click on the backdrop
cancelPayment ==
    /\ modal.open
    /\ modal' = [modal EXCEPT !.open = FALSE]
    /\ UNCHANGED <<srvVars, pollVars, currentTaskFilter, resVars, demoMode,
                   ethereum, demoPage, approveButton, pay, alert, walletVars,
                   creatorVars>>

\* PayFailed with the finally block lost
PayFailed_NoFinally ==
    /\ alert' = "failed"
    /\ approveButton' = [approveButton EXCEPT !.disabled = TRUE]
    /\ pay' = IdlePay

\* app.js:472-478  catch and finally of the approve handler
PayFailed ==
    /\ alert' = "failed"
    /\ approveButton' = [disabled |-> FALSE, text |-> "Approve Payment"]
    /\ pay' = IdlePay

\* the handler goes on to its next await
PayGoes(pc, text) ==
    /\ pay' = [pay EXCEPT !.pc = pc]
    /\ approveButton' = [disabled |-> TRUE, text |-> text]
    /\ UNCHANGED alert

payFrame == <<pollVars, currentTaskFilter, hct, loops, seenTerminal,
              pollingError, demoMode, ethereum, demoPage, account, userAddress, conn,
              creatorVars>>

\* app.js:310-319  the demo POST: ?demo=true with the task id alone
DemoPost(t) ==
    [kind |-> "demo", task |-> t, from |-> "none", signedBy |-> "none"]

\* app.js:406-437  the authorization POST: from_address is
\* window.userAddress as it is now, the signature is the wallet account's
WalletPost(t) ==
    [kind |-> "wallet", task |-> t, from |-> userAddress, signedBy |-> account]

\* demo.js:7-21, 138-143  the value isDemoMode() returns changes: the
\* demo cookie expires or is deleted, or another tab of the application
\* sets it
demoFlagChanges ==
    /\ demoMode' = ~demoMode
    /\ UNCHANGED <<srvVars, pollVars, currentTaskFilter, resVars, ethereum, demoPage,
                   modal, approveButton, pay, alert, walletVars, creatorVars>>

\* app.js:303-343  the awaits of the demo branch
DemoPcs == {"demoDelay", "demoPost", "demoRefetch"}

\* app.js:344-471  the awaits of the wallet branch
WalletPcs == {"getNetwork", "switch", "add", "sign", "post", "refetch"}

\* app.js:295-308, 346-351  the approve button is clicked: the handler up to
\* its first await
approveClick ==
    /\ modal.open
    /\ modal.task # 0
    /\ ~approveButton.disabled
    /\ IF demoMode THEN
          /\ pay' = [pc |-> "demoDelay", task |-> modal.task]
          /\ approveButton' = [disabled |-> TRUE, text |-> "Processing Payment..."]
          /\ UNCHANGED alert
       ELSE IF ~ethereum THEN PayFailed
       ELSE
          /\ pay' = [pc |-> "getNetwork", task |-> modal.task]
          /\ approveButton' = [disabled |-> TRUE, text |-> "Processing..."]
          /\ UNCHANGED alert
    /\ UNCHANGED <<srvVars, payFrame, panel, modal, signer, posted>>

\* demoDelayOver reading the demo flag again
demoDelayOver_RechecksFlag ==
    /\ pay.pc = "demoDelay"
    /\ IF demoMode
       THEN /\ PayGoes("demoPost", "Processing Payment...")
            /\ posted' = DemoPost(pay.task)
       ELSE /\ PayGoes("getNetwork", "Processing...")
            /\ UNCHANGED posted
    /\ UNCHANGED <<srvVars, payFrame, panel, modal, signer>>

\* app.js:308-319  the simulated delay is over, the demo POST is sent
demoDelayOver ==
    /\ pay.pc = "demoDelay"
    /\ PayGoes("demoPost", "Processing Payment...")
    /\ posted' = DemoPost(pay.task)
    /\ UNCHANGED <<srvVars, payFrame, panel, modal, signer>>

\* app.js:392-406  the typed data is handed to window.signer: without a
\* signer the call throws at once
RequestSignature(sg) ==
    IF sg THEN PayGoes("sign", "Processing...") ELSE PayFailed

\* app.js:351-390  provider.getNetwork() answered
getNetworkAnswer(o) ==
    /\ pay.pc = "getNetwork"
    /\ CASE o = "ok" -> RequestSignature(signer)
         [] o = "wrong" -> PayGoes("switch", "Switching Network...")
         [] OTHER -> PayFailed
    /\ UNCHANGED <<srvVars, payFrame, panel, modal, signer, posted>>

\* app.js:358-385  wallet_switchEthereumChain answered
switchChainAnswer(o) ==
    /\ pay.pc = "switch"
    /\ CASE o = "ok" -> RequestSignature(TRUE) /\ signer' = TRUE
         [] o = "4902" -> PayGoes("add", "Switching Network...") /\ UNCHANGED signer
         [] OTHER -> PayFailed /\ UNCHANGED signer
    /\ UNCHANGED <<srvVars, payFrame, panel, modal, posted>>

\* app.js:368-390  wallet_addEthereumChain answered
addChainAnswer(o) ==
    /\ pay.pc = "add"
    /\ CASE o = "ok" -> RequestSignature(TRUE) /\ signer' = TRUE
         [] OTHER -> PayFailed /\ UNCHANGED signer
    /\ UNCHANGED <<srvVars, payFrame, panel, modal, posted>>

\* app.js:406-437  _signTypedData answered; the authorization is posted
signAnswer(o) ==
    /\ pay.pc = "sign"
    /\ CASE o = "ok" ->
              /\ PayGoes("post", "Processing Payment...")
              /\ posted' = WalletPost(pay.task)
         [] OTHER -> PayFailed /\ UNCHANGED posted
    /\ UNCHANGED <<srvVars, payFrame, panel, modal, signer>>

\* authorizeAnswer going on to the re-fetch whatever the answer says
authorizeAnswer_IgnoresResult(o) ==
    /\ pay.pc \in {"demoPost", "post"}
    /\ PayGoes(IF pay.pc = "demoPost" THEN "demoRefetch" ELSE "refetch",
               "Loading Result...")
    /\ IF o \in {"success", "lost"}
       THEN srvPay' = [srvPay EXCEPT ![pay.task] = "paid"]
       ELSE UNCHANGED srvPay
    /\ UNCHANGED <<srvStatus, payFrame, panel, modal, signer, posted>>

\* app.js:310-329, 431-458  POST /api/payments/authorize answered:
\* "success", "rejected" (not ok, or success false), "throw" (no answer and
\* nothing authorized), "lost" (authorized, but the answer never arrived)
authorizeAnswer(o) ==
    /\ pay.pc \in {"demoPost", "post"}
    /\ CASE o = "success" ->
              /\ PayGoes(IF pay.pc = "demoPost" THEN "demoRefetch" ELSE "refetch",
                         "Loading Result...")
              /\ srvPay' = [srvPay EXCEPT ![pay.task] = "paid"]
         [] o = "lost" ->
              /\ PayFailed
              /\ srvPay' = [srvPay EXCEPT ![pay.task] = "paid"]
         [] OTHER ->
              /\ PayFailed
              /\ UNCHANGED srvPay
    /\ UNCHANGED <<srvStatus, payFrame, panel, modal, signer, posted>>

\* what the re-fetch writes for response r (app.js:332-339, 463-470)
PaidPanel(r) == IF r.content THEN "paidContent" ELSE "paidEmpty"

\* app.js:329-342, 458-478  the re-fetched result arrived as r: the element
\* is looked up now; without it the write throws
refetchAnswer(r) ==
    /\ pay.pc \in {"demoRefetch", "refetch"}
    /\ IF panel[pay.task] = "absent"
       THEN /\ PayFailed
            /\ UNCHANGED <<panel, modal>>
       ELSE /\ panel' = [panel EXCEPT ![pay.task] = PaidPanel(r)]
            /\ modal' = [modal EXCEPT !.open = FALSE]
            /\ approveButton' = [disabled |-> FALSE, text |-> "Approve Payment"]
            /\ pay' = IdlePay
            /\ UNCHANGED alert
    /\ UNCHANGED <<srvVars, payFrame, signer, posted>>

\* app.js:329, 458, 472-478  getTaskResult rejected
refetchFail ==
    /\ pay.pc \in {"demoRefetch", "refetch"}
    /\ PayFailed
    /\ UNCHANGED <<srvVars, payFrame, panel, modal, signer, posted>>

\* the bodies the result endpoint may answer to the re-fetch: any status
\* code, with or without content
RefetchResponses ==
    {r \in Responses : ~r.requires_ciba /\ r.ciba_status = "none"
                        /\ ~r.failed /\ r.amount = (r.code = 402)}

\* what a step of setupWalletConnection leaves alone
connFrame == <<srvVars, pollingInterval, timers, hasRunningTask,
               lastLoadedTasks, currentTaskFilter, resVars, demoMode, ethereum, demoPage,
               modal, approveButton, pay, alert, account, posted, creatorVars>>

\* the wallet user selects another account; the application registers no
\* accountsChanged listener, so no variable of the page follows
accountChanges ==
    /\ \E a \in Accounts \ {account} : account' = a
    /\ UNCHANGED <<srvVars, pollVars, currentTaskFilter, resVars, demoMode,
                   ethereum, demoPage, modal, approveButton, pay, alert, userAddress,
                   signer, conn, posted, creatorVars>>

ConnGoes(pc) ==
    /\ conn' = [conn EXCEPT !.pc = pc]
    /\ UNCHANGED <<loads, userAddress, signer>>

\* auth.js:189-193  the catch of setupWalletConnection: the connect button
\* is rendered, window.signer and window.userAddress are not assigned
ConnFailed ==
    /\ conn' = IdleConn
    /\ UNCHANGED <<loads, userAddress, signer>>

\* auth.js:181-188  the address is displayed and published, loadTasks()
\* is called
ConnDone ==
    /\ BagCardinality(loads) < MaxLoads
    /\ conn' = IdleConn
    /\ signer' = TRUE
    /\ userAddress' = conn.addr
    /\ loads' = Put(loads, SentLoad)

\* auth.js:206-212, 278-292, 116-122  the connect button (present until a
\* setup succeeds) is clicked, or checkWalletConnection finds an authorised
\* account: setupWalletConnection starts and asks for the network
connStart ==
    /\ ethereum
    /\ conn.pc = "idle"
    /\ userAddress = "none"
    /\ ConnGoes("getNetwork")
    /\ UNCHANGED connFrame

\* setupWalletConnection asking to register the chain whatever the switch
\* failure was
connSwitchFailed_AlwaysAdds(o) == ConnGoes("add")

\* auth.js:132-151  the catch around the switch request
connSwitchFailed(o) == IF o = "4902" THEN ConnGoes("add") ELSE ConnFailed

\* auth.js:122-131  provider.getNetwork() answered
connNetworkAnswer(o) ==
    /\ conn.pc = "getNetwork"
    /\ CASE o = "ok" -> ConnGoes("address")
         [] o = "wrong" -> ConnGoes("switch")
         [] OTHER -> ConnFailed
    /\ UNCHANGED connFrame

\* auth.js:127-156  wallet_switchEthereumChain answered
connSwitchAnswer(o) ==
    /\ conn.pc = "switch"
    /\ IF o = "ok" THEN ConnGoes("address") ELSE connSwitchFailed(o)
    /\ UNCHANGED connFrame

\* auth.js:135-156  wallet_addEthereumChain answered
connAddAnswer(o) ==
    /\ conn.pc = "add"
    /\ IF o = "ok" THEN ConnGoes("address") ELSE ConnFailed
    /\ UNCHANGED connFrame

\* auth.js:155-164  signer.getAddress() answered with the account selected
\* now; the ownership signature is requested
connAddressAnswer(o) ==
    /\ conn.pc = "address"
    /\ IF o = "ok"
       THEN /\ conn' = [pc |-> "signMessage", addr |-> account]
            /\ UNCHANGED <<loads, userAddress, signer>>
       ELSE ConnFailed
    /\ UNCHANGED connFrame

\* auth.js:164-188  signer.signMessage answered: a declined signature is
\* tolerated
connSignAnswer(o) ==
    /\ conn.pc = "signMessage"
    /\ IF o = "ok" THEN ConnGoes("save") ELSE ConnDone
    /\ UNCHANGED connFrame

\* connSaveAnswer giving up the connection when the call failed
connSaveAnswer_FailureAborts(o) ==
    /\ conn.pc = "save"
    /\ IF o = "ok" THEN ConnDone ELSE ConnFailed
    /\ UNCHANGED connFrame

\* auth.js:168-188  connectWalletToAuth0 answered: a failure is tolerated
connSaveAnswer(o) ==
    /\ conn.pc = "save"
    /\ ConnDone
    /\ UNCHANGED connFrame

\* ---------------------------------------------------------- specifications
\* SpecPoll: the task list of a session whose tasks run and then fail or
\* complete with a free result
InitPoll ==
    /\ srvStatus = [t \in Tasks |-> "pending"]
    /\ srvPay = [t \in Tasks |-> "na"]
    /\ ClientInit
    /\ PayInit
    /\ WalletSession

NextPoll ==
    \/ \E t \in Tasks : SrvStart(t)
    \/ \E t \in Tasks : SrvFinish(t, {"free"})
    \/ ListTasksServe({"ok", "throw", "body"})
    \/ PollingTick
    \/ CallLoadTasks
    \/ \E x \in BagToSet(loads) : loadTasksOk(x)
    \/ \E x \in BagToSet(loads) : loadTasksThrow(x)
    \/ \E x \in BagToSet(loads) : loadTasksBody(x)
    \/ \E c \in BagToSet(hct) : \E r \in ServerResponses(c.task) : HCTResume(c, r)
    \/ \E c \in BagToSet(hct) : HCTFail(c)

SpecPoll == InitPoll /\ [][NextPoll]_vars

\* Spec: task 1 is completed and its payment awaits approval; the other
\* tasks are running, which keeps the 3-second poll alive
Init ==
    /\ srvStatus = [t \in Tasks |-> IF t = 1 THEN "completed" ELSE "running"]
    /\ srvPay = [t \in Tasks |-> IF t = 1 THEN "pending" ELSE "na"]
    /\ ClientInit
    /\ PayInit
    /\ WalletSession

Next ==
    \/ \E t \in Tasks : SrvApproval(t)
    \/ ListTasksServe({"ok", "throw", "body"})
    \/ PollingTick
    \/ CallLoadTasks
    \/ \E x \in BagToSet(loads) : loadTasksOk(x)
    \/ \E x \in BagToSet(loads) : loadTasksThrow(x)
    \/ \E x \in BagToSet(loads) : loadTasksBody(x)
    \/ \E c \in BagToSet(hct) : \E r \in ServerResponses(c.task) : HCTResume(c, r)
    \/ \E c \in BagToSet(hct) : HCTFail(c)
    \/ \E l \in LoopIds : \E s \in StatusAnswers(l) : PollStatus(l, s)
    \/ \E l \in LoopIds : PollWake(l, AttemptCap)
    \/ \E l \in LoopIds : \E r \in ServerResponses(loops[l].task) : PollResolve(l, r)
    \/ \E l \in LoopIds : PollResolveFail(l)

Spec == Init /\ [][Next]_vars

TypeOK ==
    /\ srvStatus \in [Tasks -> TaskStatus]
    /\ srvPay \in [Tasks -> PayStates]
    /\ pollingInterval \in BOOLEAN
    /\ timers = IF pollingInterval THEN 1 ELSE 0
    /\ hasRunningTask \in BOOLEAN
    /\ BagCardinality(loads) <= MaxLoads
    /\ BagCardinality(hct) <= MaxHCT
    /\ \A t \in Tasks : CopiesIn(Call(t, TRUE), hct) <= 1
    /\ \A l \in LoopIds : loops[l].attempt \in 0..(maxAttempts - 1)
    /\ modal.task \in Tasks \cup {0}
    /\ account \in Accounts
    /\ userAddress \in Accounts \cup {DemoAddress, "none"}
    /\ signer \in BOOLEAN
    /\ posted.kind \in {"none", "demo", "wallet"}
    /\ posted.task \in Tasks \cup {0}
    /\ conn.pc \in {"idle", "getNetwork", "switch", "add", "address",
                   "signMessage", "save"}
    /\ conn.addr \in Accounts \cup {"none"}
    /\ session \in {"none", "in", "out"}
    /\ lastIsAuthenticated \in {"undefined", "yes", "no"}
    /\ BagCardinality(renders) <= MaxRenders
    /\ creator.cards \in {"none", "enabled", "disabled", "failed"}
    /\ creator.banner \in BOOLEAN
    /\ createModal \in BOOLEAN
    /\ taskInterval \in BOOLEAN
    /\ submit.pc \in {"idle", "create", "start"}
    /\ submit.task \in Tasks \cup {0}
    /\ approveButton.disabled <=> pay.pc # "idle"

\* SpecResolve: one completed task whose result endpoint may answer any
\* body; two overlapping loadTasks calls have rendered the list, so that two
\* handleCompletedTask calls are in flight, the older one detached
InitResolve ==
    /\ srvStatus = [t \in Tasks |-> IF t = 1 THEN "completed" ELSE "none"]
    /\ srvPay = [t \in Tasks |-> IF t = 1 THEN "pending" ELSE "na"]
    /\ loads = EmptyBag
    /\ pollingInterval = FALSE
    /\ timers = 0
    /\ hasRunningTask = FALSE
    /\ lastLoadedTasks = [defined |-> TRUE, tasks |-> srvStatus]
    /\ currentTaskFilter = "all"
    /\ panel = renderTaskListWithTabs(lastLoadedTasks, currentTaskFilter)
    /\ hct = SetToBag({Call(1, FALSE), Call(1, TRUE)})
    /\ loops = [i \in LoopIds |-> IdleLoop]
    /\ seenTerminal = [t \in Tasks |-> FALSE]
    /\ pollingError = FALSE
    /\ PayInit
    /\ WalletSession

NextResolve ==
    \/ \E t \in Tasks : SrvApproval(t)
    \/ \E c \in BagToSet(hct) : \E r \in Responses : HCTResume(c, r)
    \/ \E c \in BagToSet(hct) : HCTFail(c)
    \/ \E l \in LoopIds : \E s \in StatusAnswers(l) : PollStatus(l, s)
    \/ \E l \in LoopIds : PollWake(l, AttemptCap)
    \/ \E l \in LoopIds : \E r \in Responses : PollResolve(l, r)
    \/ \E l \in LoopIds : PollResolveFail(l)

SpecResolve == InitResolve /\ [][NextResolve]_vars

\* SpecLoop: the list has been rendered and one handleCompletedTask call for
\* task 1 is in flight; every answer arrives and every wait ends
InitLoop ==
    /\ srvStatus = [t \in Tasks |-> IF t = 1 THEN "completed" ELSE "none"]
    /\ srvPay = [t \in Tasks |-> IF t = 1 THEN "pending" ELSE "na"]
    /\ loads = EmptyBag
    /\ pollingInterval = FALSE
    /\ timers = 0
    /\ hasRunningTask = FALSE
    /\ lastLoadedTasks = [defined |-> TRUE, tasks |-> srvStatus]
    /\ currentTaskFilter = "all"
    /\ panel = renderTaskListWithTabs(lastLoadedTasks, currentTaskFilter)
    /\ hct = SetToBag({Call(1, TRUE)})
    /\ loops = [i \in LoopIds |-> IdleLoop]
    /\ seenTerminal = [t \in Tasks |-> FALSE]
    /\ pollingError = FALSE
    /\ PayInit
    /\ WalletSession

LoopStep(l) ==
    \/ \E s \in StatusAnswers(l) : PollStatus(l, s)
    \/ PollWake(l, maxAttempts)
    \/ \E r \in ServerResponses(loops[l].task) : PollResolve(l, r)
    \/ PollResolveFail(l)

NextLoop ==
    \/ \E t \in Tasks : SrvApproval(t)
    \/ \E c \in BagToSet(hct) : \E r \in ServerResponses(c.task) : HCTResume(c, r)
    \/ \E c \in BagToSet(hct) : HCTFail(c)
    \/ \E l \in LoopIds : \E s \in StatusAnswers(l) : PollStatus(l, s)
    \/ \E l \in LoopIds : PollWake(l, maxAttempts)
    \/ \E l \in LoopIds : \E r \in ServerResponses(loops[l].task) : PollResolve(l, r)
    \/ \E l \in LoopIds : PollResolveFail(l)

SpecLoop ==
    /\ InitLoop
    /\ [][NextLoop]_vars
    /\ \A l \in LoopIds : WF_vars(LoopStep(l))

\* SpecPay: one completed task that is free or needs payment (no approval),
\* in a demo or a wallet session
InitPay ==
    /\ srvStatus = [t \in Tasks |-> IF t = 1 THEN "completed" ELSE "none"]
    /\ srvPay \in [Tasks -> {"na", "due"}]
    /\ \A t \in Tasks : srvPay[t] = "due" <=> t = 1
    /\ ClientInit
    /\ PayInit
    /\ demoMode \in BOOLEAN
    /\ ethereum \in BOOLEAN
    /\ demoPage = LoadedPage
    /\ account = "a1"
    /\ IF demoMode THEN WalletState(DemoAddress, FALSE)
       ELSE IF ethereum THEN WalletConnected
       ELSE WalletState("none", FALSE)
    /\ NoCreator

NextPay ==
    \/ ListTasksServe({"ok"})
    \/ CallLoadTasks
    \/ \E x \in BagToSet(loads) : loadTasksOk(x)
    \/ \E c \in BagToSet(hct) : \E r \in ServerResponses(c.task) : HCTResume(c, r)
    \/ \E c \in BagToSet(hct) : HCTFail(c)
    \/ \E f \in {"all", "active", "completed"} : switchTaskFilter(f)
    \/ \E t \in Tasks : promptForPayment(t)
    \/ cancelPayment
    \/ approveClick
    \/ demoDelayOver
    \/ \E o \in {"ok", "wrong", "throw"} : getNetworkAnswer(o)
    \/ \E o \in {"ok", "4902", "error"} : switchChainAnswer(o)
    \/ \E o \in {"ok", "error"} : addChainAnswer(o)
    \/ \E o \in {"ok", "reject"} : signAnswer(o)
    \/ \E o \in {"success", "rejected", "throw", "lost"} : authorizeAnswer(o)
    \/ \E r \in RefetchResponses : refetchAnswer(r)
    \/ refetchFail
    \/ demoFlagChanges

SpecPay == InitPay /\ [][NextPay]_vars

\* The wallet: a session outside demo mode with a wallet provider, from the
\* page load on; the wallet is connected by setupWalletConnection, the user
\* may select another account at any time, and the result of a completed
\* task is paid for through the wallet branch.
InitWallet ==
    /\ srvStatus = [t \in Tasks |-> IF t = 1 THEN "completed" ELSE "none"]
    /\ srvPay = [t \in Tasks |-> IF t = 1 THEN "due" ELSE "na"]
    /\ ClientInit
    /\ PayInit
    /\ demoMode = FALSE
    /\ ethereum = TRUE
    /\ demoPage = LoadedPage
    /\ account = "a1"
    /\ WalletState("none", FALSE)
    /\ NoCreator

NextWallet ==
    \/ ListTasksServe({"ok"})
    \/ CallLoadTasks
    \/ \E x \in BagToSet(loads) : loadTasksOk(x)
    \/ \E c \in BagToSet(hct) : \E r \in ServerResponses(c.task) : HCTResume(c, r)
    \/ \E c \in BagToSet(hct) : HCTFail(c)
    \/ accountChanges
    \/ connStart
    \/ \E o \in {"ok", "wrong", "throw"} : connNetworkAnswer(o)
    \/ \E o \in {"ok", "4902", "error"} : connSwitchAnswer(o)
    \/ \E o \in {"ok", "error"} : connAddAnswer(o)
    \/ \E o \in {"ok", "throw"} : connAddressAnswer(o)
    \/ \E o \in {"ok", "reject"} : connSignAnswer(o)
    \/ \E o \in {"ok", "throw"} : connSaveAnswer(o)
    \/ \E t \in Tasks : promptForPayment(t)
    \/ cancelPayment
    \/ approveClick
    \/ \E o \in {"ok", "wrong", "throw"} : getNetworkAnswer(o)
    \/ \E o \in {"ok", "4902", "error"} : switchChainAnswer(o)
    \/ \E o \in {"ok", "error"} : addChainAnswer(o)
    \/ \E o \in {"ok", "reject"} : signAnswer(o)
    \/ \E o \in {"success", "rejected", "throw", "lost"} : authorizeAnswer(o)
    \/ \E r \in RefetchResponses : refetchAnswer(r)
    \/ refetchFail

SpecWallet == InitWallet /\ [][NextWallet]_vars

\* renderTaskCreator deciding from the flag it read before its await
isDisabled_ReadAtCall(isAuthenticated, atCall, atRender) ==
    ~isAuthenticated \/ atCall

\* auth.js:547  const isDisabled = !isAuthenticated || window.hasRunningTask,
\* evaluated after the await
isDisabled(isAuthenticated, atCall, atRender) ==
    ~isAuthenticated \/ atRender

\* auth.js:497-503, 547-553, 621-651  what call r renders once the agent
\* catalog arrived: the banner from the flag read at the call, the cards
\* (with click listeners unless disabled) from the flag as it is now
Rendered(r) ==
    [cards |-> IF isDisabled(r.auth, r.running, hasRunningTask)
               THEN "disabled" ELSE "enabled",
     banner |-> r.auth /\ r.running]

\* auth.js:504-627  listAgents() answered for call r: the container is
\* rewritten, with the cards or, the request failed, with the error text
listAgentsAnswer(r, o) ==
    /\ BagIn(r, renders)
    /\ renders' = Take(renders, r)
    /\ creator' = IF o = "ok" THEN Rendered(r)
                  ELSE [Rendered(r) EXCEPT !.cards = "failed"]
    /\ UNCHANGED <<srvVars, pollVars, currentTaskFilter, resVars, payVars,
                   session, lastIsAuthenticated, createModal, submit,
                   createAlert, taskInterval>>

\* what a step of the task creation leaves alone
createFrame == <<srvPay, pollingInterval, timers, hasRunningTask,
                 lastLoadedTasks, currentTaskFilter, resVars, payVars, session,
                 lastIsAuthenticated, renders, creator, taskInterval>>

\* auth.js:633-651, 696-841  an enabled agent card is clicked: its listener
\* opens the create-task modal
cardClick ==
    /\ creator.cards = "enabled"
    /\ ~createModal
    /\ createModal' = TRUE
    /\ UNCHANGED <<srvStatus, loads, submit, createAlert, createFrame>>

\* auth.js:843-850  the modal is closed by its cancel button or a click
\* beside it
hideCreateTaskModal ==
    /\ createModal
    /\ createModal' = FALSE
    /\ UNCHANGED <<srvStatus, loads, submit, createAlert, createFrame>>

\* the answers of POST /api/tasks/ other than success: the active-task
\* limit (HTTP 400 with the limit message as detail) and a server error
LimitText == "Task limit reached"
LimitResponse ==
    [kind |-> "http", status |-> "400", statusText |-> "Bad Request",
     json |-> TRUE, detail |-> LimitText]
ServerError ==
    [kind |-> "http", status |-> "500", statusText |-> "Internal Server Error",
     json |-> TRUE, detail |-> "Internal error"]
NetworkError ==
    [kind |-> "network", status |-> "0", statusText |-> "", json |-> FALSE,
     detail |-> ""]

\* an HTTP error whose body is not JSON (a proxy's error page)
GatewayError ==
    [kind |-> "http", status |-> "502", statusText |-> "Bad Gateway",
     json |-> FALSE, detail |-> ""]

\* auth.js:1372, 1376  new Error(`API request failed: ${text}`): an Error
\* has no status property
APIError(text) ==
    [status |-> "undefined", message |-> <<"API request failed: ", text>>]

\* auth.js:1355-1378  what fetchFromAPI throws for a failed request. For an
\* HTTP error other than 402 and 403: response.json() rejects on a body that
\* is not JSON, otherwise the error built from the body's detail is thrown
\* (1368-1372); both happen inside the try, whose catch (1373-1377) throws
\* the error built from the status text instead. A transport failure is
\* fetch's own TypeError
fetchFromAPIError(resp) ==
    IF resp.kind = "network"
    THEN [status |-> "undefined", message |-> <<"Failed to fetch">>]
    ELSE LET thrownInTry == IF resp.json THEN APIError(resp.detail)
                            ELSE [status |-> "undefined",
                                  message |-> <<"Unexpected token">>]
             caught == thrownInTry
         IN  APIError(resp.statusText)

\* String.prototype.includes on a message built from the parts m
Includes(m, text) == \E i \in DOMAIN m : m[i] = text

LimitHeading == "Task Limit Reached"

\* auth.js:908-921  the alert of submitModalTask's catch
submitAlert(error) ==
    IF error.status = "400" /\ Includes(error.message, LimitText)
    THEN <<LimitHeading>> \o error.message \o <<"Tip">>
    ELSE <<"Failed to create task: ">> \o error.message

\* auth.js:866-904  the submit button of the modal is clicked: an empty
\* input is refused with an alert, otherwise the button is disabled and
\* the task is posted
submitClick(valid) ==
    /\ createModal
    /\ submit.pc = "idle"
    /\ IF valid
       THEN /\ submit' = [pc |-> "create", task |-> 0]
            /\ UNCHANGED createAlert
       ELSE /\ createAlert' = <<"Please enter">>
            /\ UNCHANGED submit
    /\ UNCHANGED <<srvStatus, loads, createModal, createFrame>>

\* auth.js:902-924  the catch of submitModalTask: the alert, the button is
\* enabled again
submitFailed(error) ==
    /\ createAlert' = submitAlert(error)
    /\ submit' = IdleSubmit

\* auth.js:903-905  createTask answered: the server has created the task
\* (pending) and the start request is sent, or the request failed
createAnswer(resp) ==
    /\ submit.pc = "create"
    /\ IF resp.kind = "created"
       THEN /\ \E t \in Tasks :
                 /\ srvStatus[t] = "none"
                 /\ srvStatus' = [srvStatus EXCEPT ![t] = "pending"]
                 /\ submit' = [pc |-> "start", task |-> t]
            /\ UNCHANGED createAlert
       ELSE /\ submitFailed(fetchFromAPIError(resp))
            /\ UNCHANGED srvStatus
    /\ UNCHANGED <<loads, createModal, createFrame>>

\* auth.js:905-907  startTask answered: the server runs the task, the modal
\* is hidden and loadTasks() called, or the request failed
startAnswer(resp) ==
    /\ submit.pc = "start"
    /\ IF resp.kind = "started"
       THEN /\ BagCardinality(loads) < MaxLoads
            /\ srvStatus' = [srvStatus EXCEPT ![submit.task] = "running"]
            /\ createModal' = FALSE
            /\ submit' = IdleSubmit
            /\ loads' = Put(loads, SentLoad)
            /\ UNCHANGED createAlert
       ELSE /\ submitFailed(fetchFromAPIError(resp))
            /\ UNCHANGED <<srvStatus, createModal, loads>>
    /\ UNCHANGED createFrame

\* app.js:486-491  startTaskUpdates sets the 5-second timer on loadTasks;
\* no statement of the application calls it
startTaskUpdates == taskInterval' = TRUE

\* app.js:493-495
stopTaskUpdates == taskInterval' = FALSE

\* auth.js:9-12  the logout button: stopTaskUpdates, then the navigation
\* to /auth/logout is requested
logout ==
    /\ session = "in"
    /\ stopTaskUpdates
    /\ session' = "out"
    /\ UNCHANGED <<srvVars, pollVars, currentTaskFilter, resVars, payVars,
                   lastIsAuthenticated, renders, creator, createModal, submit,
                   createAlert>>

\* no task is being created, the legacy timer is not set
NoSubmit ==
    /\ createModal = FALSE
    /\ submit = IdleSubmit
    /\ createAlert = <<>>
    /\ taskInterval = FALSE

\* auth.js:36-45, app.js:1-3  updateUI found a session: initializeApp has
\* called renderTaskCreator(true), which is at its await; loadTasks() is
\* called next
LoggedInPage ==
    /\ ClientInit
    /\ session = "in"
    /\ lastIsAuthenticated = "yes"
    /\ renders = SetToBag({RenderCall(TRUE, FALSE)})
    /\ creator = [cards |-> "none", banner |-> FALSE]

\* auth.js:36-52  updateUI found no session: renderTaskCreator(false) is at
\* its await, renderTaskList([]) has drawn the empty list
LoggedOutPage ==
    /\ loads = EmptyBag
    /\ pollingInterval = FALSE
    /\ timers = 0
    /\ hasRunningTask = FALSE
    /\ lastLoadedTasks = [defined |-> TRUE, tasks |-> NoList]
    /\ currentTaskFilter = "all"
    /\ panel = [t \in Tasks |-> "absent"]
    /\ hct = EmptyBag
    /\ loops = [i \in LoopIds |-> IdleLoop]
    /\ seenTerminal = [t \in Tasks |-> FALSE]
    /\ pollingError = FALSE
    /\ session = "none"
    /\ lastIsAuthenticated = "no"
    /\ renders = SetToBag({RenderCall(FALSE, FALSE)})
    /\ creator = [cards |-> "none", banner |-> FALSE]

\* The task creator: the page after updateUI, with or without a session;
\* with one, the first task is started and finished by the server while
\* the list is loaded and polled and the creator re-rendered after every
\* load.
InitCards ==
    /\ srvStatus = [t \in Tasks |-> IF t = 1 THEN "pending" ELSE "none"]
    /\ srvPay = [t \in Tasks |-> "na"]
    /\ LoggedInPage \/ LoggedOutPage
    /\ NoSubmit
    /\ PayInit
    /\ demoMode = FALSE
    /\ ethereum = TRUE
    /\ demoPage = LoadedPage
    /\ WalletConnected

NextCards ==
    \/ \E t \in Tasks : SrvStart(t)
    \/ \E t \in Tasks : SrvFinish(t, {"free"})
    \/ ListTasksServe({"ok", "throw"})
    \/ PollingTick
    \/ session = "in" /\ CallLoadTasks
    \/ \E x \in BagToSet(loads) : loadTasksOk(x)
    \/ \E x \in BagToSet(loads) : loadTasksThrow(x)
    \/ \E c \in BagToSet(hct) : \E r \in ServerResponses(c.task) : HCTResume(c, r)
    \/ \E c \in BagToSet(hct) : HCTFail(c)
    \/ \E r \in BagToSet(renders) : \E o \in {"ok", "throw"} : listAgentsAnswer(r, o)

SpecCards == InitCards /\ [][NextCards]_vars

\* auth.js:963  activeTasks >= 3
ActiveLimit == 3

\* auth.js:958  tasks that are pending or running
ActiveTasks(tasks) ==
    Cardinality({i \in DOMAIN tasks : tasks[i] \in {"pending", "running"}})

\* the lists of three active tasks, in every mix of pending and running
ThreeActiveLists == [1..ActiveLimit -> {"pending", "running"}]

\* The task limit: a page with a session whose first loadTasks() is
\* answered with a list of three active tasks; the user opens the create
\* modal if a card lets them and submits, and the server, counting three
\* active tasks, refuses the creation.
InitLimit ==
    /\ \E L \in ThreeActiveLists :
          /\ srvStatus = [t \in Tasks |-> L[t]]
          /\ loads = SetToBag({Answered("ok", L)})
    /\ srvPay = [t \in Tasks |-> "na"]
    /\ pollingInterval = FALSE
    /\ timers = 0
    /\ hasRunningTask = FALSE
    /\ lastLoadedTasks = UndefinedList
    /\ currentTaskFilter = "all"
    /\ panel = [t \in Tasks |-> "absent"]
    /\ hct = EmptyBag
    /\ loops = [i \in LoopIds |-> IdleLoop]
    /\ seenTerminal = [t \in Tasks |-> FALSE]
    /\ pollingError = FALSE
    /\ session = "in"
    /\ lastIsAuthenticated = "yes"
    /\ renders = SetToBag({RenderCall(TRUE, FALSE)})
    /\ creator = [cards |-> "none", banner |-> FALSE]
    /\ NoSubmit
    /\ PayInit
    /\ demoMode = FALSE
    /\ ethereum = TRUE
    /\ demoPage = LoadedPage
    /\ WalletConnected

NextLimit ==
    \/ \E x \in BagToSet(loads) : loadTasksOk(x)
    \/ \E r \in BagToSet(renders) : \E o \in {"ok", "throw"} : listAgentsAnswer(r, o)
    \/ cardClick
    \/ hideCreateTaskModal
    \/ \E valid \in BOOLEAN : submitClick(valid)
    \/ \E resp \in {LimitResponse, GatewayError, NetworkError} :
          createAnswer(resp)
    \/ logout

SpecLimit == InitLimit /\ [][NextLimit]_vars

\* Task creation: a page with a session and no task yet; tasks are created
\* and started through the modal, run and finish at the server, while the
\* list is loaded and polled.
InitCreate ==
    /\ srvStatus = [t \in Tasks |-> "none"]
    /\ srvPay = [t \in Tasks |-> "na"]
    /\ LoggedInPage
    /\ NoSubmit
    /\ PayInit
    /\ demoMode = FALSE
    /\ ethereum = TRUE
    /\ demoPage = LoadedPage
    /\ WalletConnected

NextCreate ==
    \/ \E t \in Tasks : SrvFinish(t, {"free"})
    \/ ListTasksServe({"ok"})
    \/ PollingTick
    \/ session = "in" /\ lastLoadedTasks = UndefinedList /\ CallLoadTasks
    \/ \E x \in BagToSet(loads) : loadTasksOk(x)
    \/ \E c \in BagToSet(hct) : \E r \in ServerResponses(c.task) : HCTResume(c, r)
    \/ \E c \in BagToSet(hct) : HCTFail(c)
    \/ \E r \in BagToSet(renders) : listAgentsAnswer(r, "ok")
    \/ cardClick
    \/ submitClick(TRUE)
    \/ \E resp \in {[kind |-> "created"], ServerError} : createAnswer(resp)
    \/ \E resp \in {[kind |-> "started"], ServerError} : startAnswer(resp)
    \/ logout

SpecCreate == InitCreate /\ [][NextCreate]_vars

\* SpecDiscover: a page with a session whose first list (empty) has been
\* loaded and whose task creator is rendered; tasks are created and started
\* through the modal and finished by the server. Every request is answered
\* and every answer handled; task-list fetches succeed again and again
\* if they keep being made; the server finishes every running task.
InitDiscover ==
    /\ srvStatus = [t \in Tasks |-> "none"]
    /\ srvPay = [t \in Tasks |-> "na"]
    /\ loads = EmptyBag
    /\ pollingInterval = FALSE
    /\ timers = 0
    /\ hasRunningTask = FALSE
    /\ lastLoadedTasks = [defined |-> TRUE, tasks |-> NoList]
    /\ currentTaskFilter = "all"
    /\ panel = [t \in Tasks |-> "absent"]
    /\ hct = EmptyBag
    /\ loops = [i \in LoopIds |-> IdleLoop]
    /\ seenTerminal = [t \in Tasks |-> FALSE]
    /\ pollingError = FALSE
    /\ session = "in"
    /\ lastIsAuthenticated = "yes"
    /\ renders = EmptyBag
    /\ creator = [cards |-> "enabled", banner |-> FALSE]
    /\ NoSubmit
    /\ PayInit
    /\ demoMode = FALSE
    /\ ethereum = TRUE
    /\ demoPage = LoadedPage
    /\ WalletConnected

NextDiscover ==
    \/ cardClick
    \/ submitClick(TRUE)
    \/ createAnswer([kind |-> "created"])
    \/ startAnswer([kind |-> "started"])
    \/ \E t \in Tasks : SrvFinish(t, {"free"})
    \/ ListTasksServe({"ok"})
    \/ ListTasksServe({"throw"})
    \/ PollingTick
    \/ \E x \in BagToSet(loads) : loadTasksOk(x)
    \/ \E x \in BagToSet(loads) : loadTasksThrow(x)
    \/ \E c \in BagToSet(hct) : \E r \in ServerResponses(c.task) : HCTResume(c, r)
    \/ \E r \in BagToSet(renders) : listAgentsAnswer(r, "ok")

SpecDiscover ==
    /\ InitDiscover
    /\ [][NextDiscover]_vars
    /\ WF_vars(createAnswer([kind |-> "created"]))
    /\ WF_vars(startAnswer([kind |-> "started"]))
    /\ WF_vars(\E t \in Tasks : SrvFinish(t, {"free"}))
    /\ SF_vars(ListTasksServe({"ok"}))
    /\ WF_vars(PollingTick)
    /\ WF_vars(\E x \in BagToSet(loads) : loadTasksOk(x))
    /\ WF_vars(\E x \in BagToSet(loads) : loadTasksThrow(x))
    /\ WF_vars(\E c \in BagToSet(hct) : \E r \in ServerResponses(c.task) :
                  HCTResume(c, r))
    /\ WF_vars(\E r \in BagToSet(renders) : listAgentsAnswer(r, "ok"))

\* ------------------------------ task creation through handleTaskCreation
\* auth.js:681, 686-692, 1331-1332  createTask answered inside
\* handleTaskCreation. Its catch and finally alert the error and enable the
\* button again, and the function returns normally, so that submitModalTask
\* (second copy) goes on to hideCreateTaskModal
handleTaskCreationCreated(resp) ==
    /\ submit.pc = "create"
    /\ IF resp.kind = "created"
       THEN /\ \E t \in Tasks :
                 /\ srvStatus[t] = "none"
                 /\ srvStatus' = [srvStatus EXCEPT ![t] = "pending"]
                 /\ submit' = [pc |-> "start", task |-> t]
            /\ UNCHANGED <<createAlert, createModal>>
       ELSE /\ createAlert' = <<"Error: ">> \o fetchFromAPIError(resp).message
            /\ submit' = IdleSubmit
            /\ createModal' = FALSE
            /\ UNCHANGED srvStatus
    /\ UNCHANGED <<loads, createFrame>>

\* auth.js:682-692, 1331-1332  startTask answered inside
\* handleTaskCreation: the inputs #text and #url of the former form are
\* cleared, which throws where the page has no such elements, before
\* loadTasks() is reached
handleTaskCreationStarted(resp, inputs) ==
    /\ submit.pc = "start"
    /\ IF resp.kind = "started"
       THEN /\ srvStatus' = [srvStatus EXCEPT ![submit.task] = "running"]
            /\ IF inputs
               THEN /\ BagCardinality(loads) < MaxLoads
                    /\ loads' = Put(loads, SentLoad)
                    /\ submit' = IdleSubmit
                    /\ createModal' = FALSE
                    /\ UNCHANGED createAlert
               ELSE /\ createAlert' = <<"Error: ", "Cannot set properties of null">>
                    /\ submit' = IdleSubmit
                    /\ createModal' = FALSE
                    /\ UNCHANGED loads
       ELSE /\ createAlert' = <<"Error: ">> \o fetchFromAPIError(resp).message
            /\ submit' = IdleSubmit
            /\ createModal' = FALSE
            /\ UNCHANGED <<srvStatus, loads>>
    /\ UNCHANGED createFrame

\* SpecDelegate: the page of SpecDiscover with the copy of the modal script
\* whose submitModalTask delegates to handleTaskCreation (auth.js:1138-1344)
NextDelegate ==
    \/ cardClick
    \/ hideCreateTaskModal
    \/ \E valid \in BOOLEAN : submitClick(valid)
    \/ \E resp \in {[kind |-> "created"], ServerError} :
          handleTaskCreationCreated(resp)
    \/ \E resp \in {[kind |-> "started"], ServerError} : \E inputs \in BOOLEAN :
          handleTaskCreationStarted(resp, inputs)
    \/ \E t \in Tasks : SrvFinish(t, {"free"})
    \/ ListTasksServe({"ok"})
    \/ PollingTick
    \/ \E x \in BagToSet(loads) : loadTasksOk(x)
    \/ \E c \in BagToSet(hct) : \E r \in ServerResponses(c.task) : HCTResume(c, r)
    \/ \E r \in BagToSet(renders) : listAgentsAnswer(r, "ok")

SpecDelegate == InitDiscover /\ [][NextDelegate]_vars

\* ------------------------------------------------- demo mode activation
\* demo.js:7-13  isDemoMode
isDemoMode(p) == p.param \/ p.cookie

\* demo.js:16-21  setDemoCookie: the cookie is there afterwards if the
\* browser stores cookies
setDemoCookie(p) == [p EXCEPT !.cookie = p.cookie \/ p.stores]

\* demo.js:31 and demo.js:215  the condition under which
\* checkAndActivateDemoMode reloads the page
NeedsReload(p) ==
    IF p.script = "reloadFlag"
    THEN p.param /\ ~p.cookie /\ ~p.flag
    ELSE p.param /\ ~p.cookie

\* what the steps of the demo script leave alone
demoFrame == <<srvVars, currentTaskFilter, loops, seenTerminal, pollingError,
               ethereum, modal, approveButton, pay, alert, account, signer,
               conn, posted, session, createModal, submit, createAlert,
               taskInterval>>

\* a navigation: the calls in flight and the window's globals are gone
FreshWindow ==
    /\ loads' = EmptyBag
    /\ pollingInterval' = FALSE
    /\ timers' = 0
    /\ hasRunningTask' = FALSE
    /\ lastLoadedTasks' = UndefinedList
    /\ panel' = [t \in Tasks |-> "absent"]
    /\ hct' = EmptyBag
    /\ userAddress' = "none"
    /\ lastIsAuthenticated' = "undefined"
    /\ renders' = EmptyBag
    /\ creator' = [cards |-> "none", banner |-> FALSE]

\* demo.js:162-177 (353-368) with checkAndActivateDemoMode 24-46 (209-227):
\* the demo script runs at page load. Reload (32-37, 216-224): the cookie is
\* set, the reload noted in sessionStorage (first copy) or the storage
\* cleared (second copy), the page requested again with the demo parameter.
\* No reload (40-45): the first copy removes the reload flag when the cookie
\* is there; activateDemoMode is arranged or the page left plain
initDemoMode ==
    /\ demoPage.pc = "load"
    /\ IF NeedsReload(demoPage)
       THEN /\ demoPage.reloads < MaxReloads
            /\ demoPage' =
                  [setDemoCookie(demoPage) EXCEPT
                     !.flag = (demoPage.script = "reloadFlag"),
                     !.reloads = @ + 1]
       ELSE demoPage' =
               [demoPage EXCEPT
                  !.flag = IF demoPage.script = "reloadFlag" /\ demoPage.cookie
                           THEN FALSE ELSE @,
                  !.pc = IF isDemoMode(demoPage) THEN "activating" ELSE "plain"]
    /\ demoMode' = isDemoMode(demoPage')
    /\ UNCHANGED <<demoFrame, loads, pollingInterval, timers, hasRunningTask,
                   lastLoadedTasks, panel, hct, userAddress,
                   lastIsAuthenticated, renders, creator>>

\* demo.js:49-61, 92-113, app.js:1-15  activateDemoMode up to the await in
\* autoDemoLogin: cookie ensured, demo wallet set, initializeApp run
\* (renderTaskCreator(true) and loadTasks to their awaits)
activateDemoMode ==
    /\ demoPage.pc = "activating"
    /\ demoPage' = [setDemoCookie(demoPage) EXCEPT !.pc = "login"]
    /\ demoMode' = isDemoMode(demoPage')
    /\ userAddress' = DemoAddress
    /\ lastIsAuthenticated' = "yes"
    /\ renderTaskCreatorCall(TRUE, hasRunningTask)
    /\ BagCardinality(loads) < MaxLoads
    /\ loads' = Put(loads, SentLoad)
    /\ UNCHANGED <<demoFrame, pollingInterval, timers, hasRunningTask,
                   lastLoadedTasks, panel, hct, creator>>

\* demo.js:115-118  autoDemoLogin after `await initializeApp`: loadTasks is
\* called a second time
autoDemoLoginResume ==
    /\ demoPage.pc = "login"
    /\ demoPage' = [demoPage EXCEPT !.pc = "activated"]
    /\ BagCardinality(loads) < MaxLoads
    /\ loads' = Put(loads, SentLoad)
    /\ UNCHANGED <<demoFrame, demoMode, pollingInterval, timers,
                   hasRunningTask, lastLoadedTasks, panel, hct, userAddress,
                   lastIsAuthenticated, renders, creator>>

\* demo.js:127-135  the banner's Exit Demo button: exitDemoMode up to its
\* await
exitDemoMode ==
    /\ demoPage.pc = "activated"
    /\ demoPage' = [demoPage EXCEPT !.pc = "exiting"]
    /\ UNCHANGED <<demoFrame, demoMode, loads, pollingInterval, timers,
                   hasRunningTask, lastLoadedTasks, panel, hct, userAddress,
                   lastIsAuthenticated, renders, creator>>

\* demo.js:137-147  the exit call answered or failed: cookie and reload
\* flag deleted, the main page loaded without the demo parameter
exitAnswer ==
    /\ demoPage.pc = "exiting"
    /\ demoPage' = [demoPage EXCEPT !.cookie = FALSE, !.flag = FALSE,
                                    !.param = FALSE, !.pc = "load"]
    /\ demoMode' = isDemoMode(demoPage')
    /\ FreshWindow
    /\ UNCHANGED demoFrame

\* the user opens the application with ?demo=true
visitDemoLink ==
    /\ demoPage.pc \in {"plain", "activated"}
    /\ demoPage' = [demoPage EXCEPT !.param = TRUE, !.pc = "load"]
    /\ demoMode' = isDemoMode(demoPage')
    /\ FreshWindow
    /\ UNCHANGED demoFrame

\* SpecDemo: the application is opened, with or without ?demo=true, in a
\* browser that stores cookies or blocks them, serving either copy of the
\* demo script; the user has no tasks
InitDemo ==
    /\ srvStatus = [t \in Tasks |-> "none"]
    /\ srvPay = [t \in Tasks |-> "na"]
    /\ ClientInit
    /\ PayInit
    /\ ethereum = TRUE
    /\ demoPage \in [script : {"reloadFlag", "alwaysReload"}, stores : BOOLEAN, param : BOOLEAN,
                      cookie : {FALSE}, flag : {FALSE}, pc : {"load"},
                      reloads : {0}]
    /\ demoMode = isDemoMode(demoPage)
    /\ account = "a1"
    /\ WalletState("none", FALSE)
    /\ session = "none"
    /\ lastIsAuthenticated = "undefined"
    /\ renders = EmptyBag
    /\ creator = [cards |-> "none", banner |-> FALSE]
    /\ NoSubmit

NextDemo ==
    \/ initDemoMode
    \/ activateDemoMode
    \/ autoDemoLoginResume
    \/ exitDemoMode
    \/ exitAnswer
    \/ visitDemoLink
    \/ ListTasksServe({"ok"})
    \/ \E x \in BagToSet(loads) : loadTasksOk(x)
    \/ \E r \in BagToSet(renders) : listAgentsAnswer(r, "ok")

SpecDemo == InitDemo /\ [][NextDemo]_vars



\* -------------------------------------------------------------- properties
ActiveLoops(t) == {l \in LoopIds : loops[l].pc # "idle" /\ loops[l].task = t}

\* slot l issues a status check in this step (app.js:237)
IssuesCheck(l) ==
    /\ loops'[l].pc = "check"
    /\ loops[l].pc # "check" \/ loops'[l].attempt # loops[l].attempt

\* a pollForCIBAApproval invocation starts in this step
StartsLoop == \E l \in LoopIds : loops[l].pc = "idle" /\ loops'[l].pc # "idle"

\* a loadTasks call resumes in this step with answer x
Resumes(x) == BagIn(x, loads) /\ loads' = Take(loads, x)

\* C1: after every loadTasks call whose fetch succeeded, the 3-second timer
\* is active exactly if the fetched list holds a running task
C1_TimerFollowsFetchedList ==
    [][\A x \in BagToSet(loads) : (x.st = "ok" /\ Resumes(x)) =>
          /\ pollingInterval' <=> HasRunningTasks(x.snap)
          /\ timers' = IF HasRunningTasks(x.snap) THEN 1 ELSE 0]_vars

C1_Witness ==
    /\ lastLoadedTasks.defined
    /\ pollingInterval
    /\ timers = 1
    /\ HasRunningTasks(lastLoadedTasks.tasks)
    /\ \E t \in Tasks : lastLoadedTasks.tasks[t] = "completed"

C3_OneLoopPerTask == \A t \in Tasks : Cardinality(ActiveLoops(t)) <= 1

\* C4: once denied / expired has been observed for a task's request, no
\* status check is issued for it and its waiting panel is not rendered again
C4_NoPollingAfterTerminal ==
    [][\A l \in LoopIds :
          (seenTerminal[loops'[l].task] /\ loops'[l].pc # "idle") =>
             /\ ~IssuesCheck(l)
             /\ panel'[loops'[l].task] \in {"waiting", "checkEmail"}
                   => panel[loops'[l].task] = panel'[loops'[l].task]]_vars

\* C5: a result response with status 'failed' never yields the pay button
\* nor starts an approval loop, whatever its other fields
C5_FailedNeverPays ==
    [][\A c \in BagToSet(hct) : \A r \in Responses :
          (r.failed /\ HCTResume(c, r)) =>
             /\ ~StartsLoop
             /\ c.attached => panel'[c.task] \notin PayButtons]_vars

\* C6: result content is written into a task's panel only when the result
\* response just received is neither 402 nor 403, in handleCompletedTask and
\* in the re-fetch of the payment procedure
C6_ContentOnlyWhenNotPaymentRequired ==
    [][\A r \in Responses : r.code \in {402, 403} =>
          /\ \A c \in BagToSet(hct) : (HCTResume(c, r) /\ c.attached) =>
                panel'[c.task] \notin {"content", "paidContent"}
          /\ refetchAnswer(r) => panel'[pay.task] \notin {"content", "paidContent"}
         ]_vars

\* C7: a loop that observed 'approved' re-invokes result resolution once,
\* issues no further check, and the resolution surfaces the payment prompt
C7_ApprovedSurfacesPayment ==
    [][\A l \in LoopIds :
          /\ (loops[l].pc = "check" /\ loops'[l].pc = "resolve") =>
                UNCHANGED <<hct, panel>>
          /\ loops[l].pc = "resolve" => ~IssuesCheck(l)
          /\ \A r \in Responses :
                (PollResolve(l, r) /\ loops[l].attached) =>
                   /\ panel'[loops[l].task] \in PayButtons
                   /\ ~StartsLoop]_vars

\* C8: 402 with requires_ciba and ciba_status 'approved' renders the payment
\* prompt directly and starts no approval loop
C8_ApprovedSkipsWaiting ==
    [][\A c \in BagToSet(hct) : \A r \in Responses :
          (r.code = 402 /\ r.requires_ciba /\ r.ciba_status = "approved"
             /\ HCTResume(c, r)) =>
             /\ ~StartsLoop
             /\ c.attached => panel'[c.task] \in PayButtons]_vars

\* C9: a 403 response renders the denial panel, starts no approval loop and
\* offers no payment action, whatever its other fields
C9_DeniedIsTerminal ==
    [][\A r \in Responses : r.code = 403 =>
          /\ \A c \in BagToSet(hct) : HCTResume(c, r) =>
                /\ ~StartsLoop
                /\ c.attached => panel'[c.task] = "approvalDenied"
          /\ \A l \in LoopIds : PollResolve(l, r) =>
                /\ ~StartsLoop
                /\ loops[l].attached => panel'[loops[l].task] = "approvalDenied"
         ]_vars

C9_Witness ==
    /\ panel[1] = "approvalDenied"
    /\ seenTerminal[1]
    /\ \A l \in LoopIds : loops[l].pc = "idle"

C10_BoundedAndTerminates ==
    /\ [](\A l \in LoopIds : loops[l].attempt < maxAttempts)
    /\ [][\A l \in LoopIds :
            /\ (loops[l].pc = "check" /\ loops'[l].pc \notin {"check", "idle", "resolve"})
                  => loops'[l].pc = "sleep" /\ loops'[l].attempt = loops[l].attempt
            /\ (loops[l].pc = "check" /\ loops'[l].pc = "check")
                  => loops'[l] = loops[l]
            /\ (loops[l].pc # "idle" /\ IssuesCheck(l))
                  => loops[l].pc = "sleep" /\ loops'[l].attempt = loops[l].attempt + 1
         ]_vars
    /\ \A l \in LoopIds : (loops[l].pc # "idle") ~> (loops[l].pc = "idle")

C10_Witness ==
    \E l \in LoopIds : loops[l].pc = "check" /\ loops[l].attempt = maxAttempts - 1

\* the approve button as the page shows it before any click
ButtonRestored == approveButton = [disabled |-> FALSE, text |-> "Approve Payment"]

\* C12: a failure at any step of the payment procedure ends with the generic
\* failure notice shown and the approve button enabled and labelled
\* 'Approve Payment'; the button is never disabled or showing a progress
\* label when no click handler is running
C12_FailureRestoresButton ==
    /\ [](pay.pc = "idle" => ButtonRestored)
    /\ [][(\/ approveClick /\ ~demoMode /\ ~ethereum
           \/ getNetworkAnswer("throw")
           \/ switchChainAnswer("error")
           \/ addChainAnswer("error")
           \/ signAnswer("reject")
           \/ \E o \in {"rejected", "throw", "lost"} : authorizeAnswer(o)
           \/ refetchFail
           \/ \E r \in RefetchResponses :
                 refetchAnswer(r) /\ panel[pay.task] = "absent")
          => (alert' = "failed" /\ pay'.pc = "idle" /\ ButtonRestored')]_vars

C12_Witness ==
    /\ alert = "failed"
    /\ pay.pc = "idle"
    /\ ButtonRestored
    /\ modal.open
    /\ \E t \in Tasks : srvPay[t] = "paid" /\ panel[t] \in PayButtons

\* C16: a payment descriptor without amount_usdc makes promptForPayment
\* raise the blocking alert and return: the modal is not shown, the approve
\* button gets no handler and does not start, nothing is posted and the
\* server's payment state stays as it was.
C16_MissingAmountAborts ==
    [][\A t \in Tasks :
          (promptForPayment(t) /\ panel[t] = "payButtonNoAmount") =>
             /\ alert' = "invalid"
             /\ UNCHANGED <<modal, approveButton, pay, posted, srvPay>>]_vars

C16_Witness ==
    /\ alert = "invalid"
    /\ ~modal.open
    /\ pay.pc = "idle"
    /\ posted = NoPost
    /\ \E t \in Tasks : panel[t] = "payButtonNoAmount" /\ srvPay[t] = "due"

\* C13: one approve click runs either the demo branch or the wallet branch.
\* The branch is the one the demo flag selects at the click; a handler in the
\* demo branch never reaches a wallet-provider call or the wallet POST and
\* posts the task id alone, a handler in the wallet branch never reaches the
\* demo POST, whatever the flag becomes while the handler runs.
C13_DemoAndWalletExclusive ==
    [][/\ (approveClick /\ demoMode) => pay'.pc \in DemoPcs
       /\ (approveClick /\ ~demoMode) => pay'.pc \in WalletPcs \cup {"idle"}
       /\ pay.pc \in DemoPcs =>
             /\ pay'.pc \in DemoPcs \cup {"idle"}
             /\ posted' \in {posted, DemoPost(pay.task)}
       /\ pay.pc \in WalletPcs =>
             /\ pay'.pc \in WalletPcs \cup {"idle"}
             /\ posted' = posted \/ posted'.kind = "wallet"]_vars

C13_Witness ==
    /\ pay.pc = "demoPost"
    /\ ~demoMode
    /\ ethereum
    /\ posted = DemoPost(pay.task)

\* C15: in the payment procedure and in setupWalletConnection alike, the
\* switch request is made only after the network query found another chain
\* than 84532, the register-chain request only after the switch request
\* failed with code 4902, and any other switch failure ends the procedure
\* (the payment with the failure notice, the setup with the connect button)
\* without a register-chain request.
C15_AddChainOnlyAfter4902 ==
    [][/\ (pay'.pc = "switch" /\ pay.pc # "switch") => getNetworkAnswer("wrong")
       /\ (pay'.pc = "add" /\ pay.pc # "add") => switchChainAnswer("4902")
       /\ getNetworkAnswer("ok") => pay'.pc \notin {"switch", "add"}
       /\ switchChainAnswer("error") => (pay'.pc = "idle" /\ alert' = "failed")
       /\ (conn'.pc = "switch" /\ conn.pc # "switch") => connNetworkAnswer("wrong")
       /\ (conn'.pc = "add" /\ conn.pc # "add") => connSwitchAnswer("4902")
       /\ connNetworkAnswer("ok") => conn'.pc = "address"
       /\ connSwitchAnswer("error") =>
             (conn' = IdleConn /\ UNCHANGED <<userAddress, signer>>)]_vars

C15_Witness ==
    /\ pay.pc = "add"
    /\ conn.pc = "add"
    /\ userAddress = "none"

\* C14: every payload the wallet branch posts names a task and carries as
\* from_address the address of the account that produced the signature,
\* never an unset or an earlier address.
C14_FromAddressIsSigner ==
    posted.kind = "wallet" =>
       /\ posted.task \in Tasks
       /\ posted.from \in Accounts
       /\ posted.from = posted.signedBy

C18_ThreeActiveDisablesCreation ==
    (/\ lastLoadedTasks.defined
     /\ ActiveTasks(lastLoadedTasks.tasks) >= ActiveLimit
     /\ renders = EmptyBag) =>
       creator.cards # "enabled"

\* C19: when the server refuses a creation with HTTP 400 and the limit
\* message, the alert of submitModalTask is the one of its task-limit
\* branch and contains the server's message.
C19_LimitMessageVerbatim ==
    [][createAnswer(LimitResponse) =>
          /\ createAlert'[1] = LimitHeading
          /\ Includes(createAlert', LimitResponse.detail)]_vars

\* C20: the legacy 5-second timer is set from the start of the session to
\* the logout, so whenever the 3-second poll is active in a session the
\* legacy timer is active next to it.
C20_LegacyTimerRunsWithSession ==
    (session = "in" /\ pollingInterval) => taskInterval

\* C21: overlapping loadTasks calls are not serialised and the answer that
\* arrives last wins: whenever a loadTasks call resumes with a fetched list,
\* window.lastLoadedTasks, window.hasRunningTask, the 3-second timer and the
\* displayed tasks are those of that list, whatever was displayed before
C21_LaterResponseWins ==
    [][\A x \in BagToSet(loads) : (x.st = "ok" /\ Resumes(x)) =>
          /\ lastLoadedTasks' = [defined |-> TRUE, tasks |-> x.snap]
          /\ hasRunningTask' = HasRunningTasks(x.snap)
          /\ pollingInterval' = HasRunningTasks(x.snap)
          /\ \A t \in Tasks : panel'[t] # "absent" <=>
                t \in filterTasks(x.snap, currentTaskFilter)]_vars

\* both calls are over; the list showing the task completed, which started
\* handleCompletedTask for it, has been replaced by the older list showing
\* it running, and the timer runs again
C21_Witness ==
    \E t \in Tasks :
        /\ loads = EmptyBag
        /\ srvStatus[t] = "completed"
        /\ lastLoadedTasks.defined
        /\ lastLoadedTasks.tasks[t] = "running"
        /\ BagIn(Call(t, FALSE), hct)
        /\ hasRunningTask
        /\ pollingInterval

\* C29: between event-loop turns the 3-second timer is active exactly if
\* window.hasRunningTask is true, and there is at most one such timer
C29_TimerIffRunningFlag ==
    /\ pollingInterval <=> hasRunningTask
    /\ timers <= 1

\* the timer has been started, stopped and started again by overlapping
\* calls, one of which failed
C29_Witness ==
    /\ pollingInterval
    /\ hasRunningTask
    /\ timers = 1
    /\ BagIn(Answered("throw", NoList), loads)
    /\ \E t \in Tasks : BagIn(Call(t, FALSE), hct)

\* C22: the demo script forces at most one reload of the page in a browser
\* session, whether or not the demo cookie can be stored
C22_AtMostOneReload == demoPage.reloads <= 1

\* C23: for an HTTP error status other than 402 / 403 the error thrown by
\* fetchFromAPI, which submitModalTask puts into its alert, carries the
\* detail of the response body when the body is JSON and the HTTP status
\* text only when it is not
C23_ErrorCarriesBodyMessage ==
    [][\A resp \in {LimitResponse, GatewayError} : createAnswer(resp) =>
          Includes(createAlert',
                   IF resp.json THEN resp.detail ELSE resp.statusText)]_vars

\* C24: a task created and started through the modal, unless it fails at
\* the server, is in the end discovered as completed by the client, which
\* then invokes handleCompletedTask for it, without a reload of the page
C24_CompletionDiscovered ==
    \A t \in Tasks :
        (srvStatus[t] = "running") ~>
            \/ srvStatus[t] = "failed"
            \/ \E a \in BOOLEAN : BagIn(Call(t, a), hct)

\* C25: in the wallet path the steps follow one another, each only after
\* the one before succeeded: the signature is requested after the network
\* check (or the switch / addition of the chain), the authorization is
\* posted only by the click whose signature request was answered, the result
\* is re-fetched only after the authorization succeeded, and it is rendered,
\* and the modal closed, only by the re-fetch
C25_WalletStepsInOrder ==
    [][/\ (pay'.pc = "sign" /\ pay.pc # "sign") =>
             pay.pc \in {"getNetwork", "switch", "add"}
       /\ (pay'.pc = "post" /\ pay.pc # "post") =>
             /\ pay.pc = "sign"
             /\ posted' = WalletPost(pay.task)
       /\ posted' # posted => (pay.pc = "sign" /\ pay'.pc = "post")
       /\ (pay'.pc = "refetch" /\ pay.pc # "refetch") =>
             /\ pay.pc = "post"
             /\ srvPay'[pay.task] = "paid"
       /\ \A t \in Tasks :
             (panel'[t] \in {"paidContent", "paidEmpty"} /\ panel'[t] # panel[t]) =>
                /\ pay.pc = "refetch"
                /\ pay.task = t
                /\ srvPay[t] = "paid"
                /\ ~modal'.open]_vars

\* the wallet path has run to its end: signed, authorized, re-fetched,
\* rendered, the modal closed, and no failure notice was ever shown
C25_Witness ==
    /\ pay.pc = "idle"
    /\ posted.kind = "wallet"
    /\ srvPay[posted.task] = "paid"
    /\ panel[posted.task] = "paidContent"
    /\ ~modal.open
    /\ alert = "none"

\* C28: once the authorization endpoint has reported success, the click
\* does not end with the notice 'Payment failed. Please try again.'
C28_NoFailureNoticeAfterSuccess ==
    [][(pay.pc \in {"demoRefetch", "refetch"} /\ alert # "failed") =>
          alert' # "failed"]_vars

C27_SubmitAllOrNothing ==
    [][/\ (submit'.pc = "start" /\ submit.pc # "start") =>
             /\ submit.pc = "create"
             /\ srvStatus'[submit'.task] = "pending"
       /\ (submit.pc # "idle" /\ submit'.pc = "idle") =>
             IF submit.pc = "start" /\ srvStatus'[submit.task] = "running"
             THEN ~createModal' /\ loads' = Put(loads, SentLoad)
             ELSE UNCHANGED <<createModal, loads>>
       /\ (createAlert' = <<"Please enter">> /\ createAlert' # createAlert) =>
             UNCHANGED <<submit, srvStatus, loads>>]_vars

\* C30: whenever a step re-renders the list, every completed task it
\* displays (with a fresh, empty result element) has a handleCompletedTask
\* call under way that will fill that element
C30_RerenderResolvesAgain ==
    [][\A t \in Tasks :
          (/\ panel' # panel
           /\ panel'[t] = "empty"
           /\ lastLoadedTasks'.defined
           /\ lastLoadedTasks'.tasks[t] = "completed") =>
             BagIn(Call(t, TRUE), hct')]_vars
====
